---- MODULE Spec2Model ----
(***************************************************************************)
(* A model of the WAV container reader (createWavFileReader, WavFileReader)*)
(* and of the two audio streaming pipelines (CallSimulator, Transcriber).  *)
(*                                                                         *)
(* A file is its length, the header fields the reader decodes at fixed     *)
(* offsets, and the sub-chunk headers that sit at given offsets; every     *)
(* other byte is zero.  A positioned read of n bytes at offset p returns   *)
(* Min(n, Max(0, size - p)) bytes, as read(2) does on a regular file.      *)
(***************************************************************************)
EXTENDS Integers, Sequences, FiniteSets, TLC

-----------------------------------------------------------------------------
(* Bounds of the model *)

\* readNext calls one run makes
MaxReads == 3
\* close calls one run makes
MaxCloses == 2
\* sub-chunks a file holds before its data chunk
MaxPreChunks == 2
\* file operations the environment lets fail with an I/O error in one run
MaxIoFaults == 1

\* Program constants
headerSize == 44
chunkHeaderSize == 8
\* the size field 0xFFFFFFFF of a data chunk that spans to the end of the file.
\* TLC's integers are 32-bit signed, so the largest of them stands for the
\* all-ones field; no file of the model is that long, and the reader only
\* compares a data chunk's size field with it.
Sentinel == 2147483647
MaxFrameSeconds == 10
DefaultChannelMin == 1
DefaultChannelMax == 16

defaultSupportedRates == {8000, 16000, 44100, 48000}

Min(a, b) == IF a <= b THEN a ELSE b
Max(a, b) == IF a >= b THEN a ELSE b

-----------------------------------------------------------------------------
(* The files and options a run is started with *)

Tags0 == {"RIFF", "RIFX"}
Tags8 == {"WAVE", "AVI "}
Tags12 == {"fmt ", "LIST"}
FmtChunkSizes == {16, 18, 40, 20}
FormatTags == {1, 7, 3}
ChannelCounts == {1, 2, 3}
Rates == {8000, 16000, 11025}
BlockAligns == {1, 2, 3, 4, 6}

\* sizes of the sub-chunks before the data chunk (0, odd, even)
PreSizes == {0, 3}
\* declared sizes of the data chunk
DataSizes == {0, 3, 4, 330000, Sentinel}
\* payload bytes the file holds when the data chunk declares the sentinel
OpenEndedPayloads == {0, 3, 4, 330000}
\* bytes missing at the end of the declared payload
Truncations == {0, 1}
\* zero bytes after the last sub-chunk of a file without data chunk
TailBytes == {0, 9}
\* sample counts handed to readNext
SampleCounts == {-1, 0, 1, 3, 80000, 80001, 160001}

\* an optional value: <<>> when undefined, <<v>> when given
Undefined == <<>>
Coalesce(opt, default) == IF opt = Undefined THEN default ELSE opt[1]

DefaultOptions ==
    [allowedRates |-> Undefined, channelMin |-> Undefined, channelMax |-> Undefined]

OptionSets ==
    { DefaultOptions,
      [allowedRates |-> <<{16000}>>, channelMin |-> <<2>>, channelMax |-> <<2>>] }

Headers ==
    [tag0 : Tags0, tag8 : Tags8, tag12 : Tags12, fmtChunkSize : FmtChunkSizes,
     formatTag : FormatTags, channels : ChannelCounts, rate : Rates,
     blockAlign : BlockAligns]

\* a header with at most one field that no option set accepts
Deviations(h) ==
    (IF h.tag0 = "RIFF" THEN 0 ELSE 1) + (IF h.tag8 = "WAVE" THEN 0 ELSE 1)
    + (IF h.tag12 = "fmt " THEN 0 ELSE 1)
    + (IF h.fmtChunkSize \in {16, 18, 40} THEN 0 ELSE 1)
    + (IF h.formatTag \in {1, 7} THEN 0 ELSE 1)
    + (IF h.channels \in {1, 2} THEN 0 ELSE 1)
    + (IF h.rate \in {8000, 16000} THEN 0 ELSE 1)
    + (IF h.blockAlign = h.channels * (IF h.formatTag = 1 THEN 2 ELSE 1) THEN 0 ELSE 1)

ZeroChunk == [tag |-> "zero", size |-> 0]

PreChunkLists ==
    UNION { [1..n -> [tag : {"LIST"}, size : PreSizes]] : n \in 0..MaxPreChunks }

\* the data chunk of a file: none, or its declared size and the payload bytes held
DataChunks ==
    { [present |-> FALSE, size |-> 0, held |-> 0, tail |-> t] : t \in TailBytes }
    \cup UNION { { [present |-> TRUE, size |-> s, held |-> s - d, tail |-> 0] :
                      d \in { y \in Truncations : y <= s } } :
                    s \in { x \in DataSizes : x # Sentinel } }
    \cup { [present |-> TRUE, size |-> Sentinel, held |-> p, tail |-> 0] : p \in OpenEndedPayloads }

\* the offsets of the sub-chunk headers a writer lays out from offset pos on,
\* each chunk padded to an even length
RECURSIVE Place(_, _)
Place(pos, chunks) ==
    IF chunks = <<>> THEN <<>>
    ELSE <<[pos |-> pos, tag |-> Head(chunks).tag, size |-> Head(chunks).size]>>
         \o Place(pos + chunkHeaderSize + Head(chunks).size + (Head(chunks).size % 2),
                  Tail(chunks))

EndOf(pos, placed) ==
    IF placed = <<>> THEN pos
    ELSE LET l == placed[Len(placed)]
         IN  l.pos + chunkHeaderSize + l.size + (l.size % 2)

MkFile(h, pre, d) ==
    LET start  == 20 + (IF h.fmtChunkSize \in {16, 18, 40} THEN h.fmtChunkSize ELSE 16)
        placed == Place(start, pre)
        dpos   == EndOf(start, placed)
        hdrs   == placed \o (IF d.present
                             THEN <<[pos |-> dpos, tag |-> "data", size |-> d.size]>>
                             ELSE <<>>)
        size   == IF d.present THEN dpos + chunkHeaderSize + d.held ELSE dpos + d.tail
    IN  [size |-> size, hdr |-> h,
         chunks |-> { hdrs[i] : i \in 1..Len(hdrs) }]

SimpleData == [present |-> TRUE, size |-> 4, held |-> 4, tail |-> 0]

\* the header createWavHeader writes: L16, two channels, fmt chunk of 16 bytes
CanonicalHeader ==
    [tag0 |-> "RIFF", tag8 |-> "WAVE", tag12 |-> "fmt ", fmtChunkSize |-> 16,
     formatTag |-> 1, channels |-> 2, rate |-> 8000, blockAlign |-> 4]

\* every layout under the canonical header, every data chunk under every
\* well-formed header, one layout under the headers with one or two bad
\* fields, and the files too short to hold a header
Files ==
    { MkFile(CanonicalHeader, pre, d) : pre \in PreChunkLists, d \in DataChunks }
    \cup { MkFile(h, <<>>, d) : h \in { x \in Headers : Deviations(x) = 0 },
                               d \in DataChunks }
    \cup { MkFile(h, <<>>, SimpleData) :
             h \in { x \in Headers : Deviations(x) \in 1..2 } }
    \cup { [size |-> 10, hdr |-> h, chunks |-> {}] :
             h \in { x \in Headers : Deviations(x) <= 1 } }

-----------------------------------------------------------------------------
(* The byte source: fs/promises FileHandle over a regular file *)

\* bytes a positioned read of len bytes at offset pos returns
BytesRead(f, pos, len) == Min(len, Max(0, f.size - pos))

\* the sub-chunk header an 8-byte read at offset pos decodes to
ChunkAt(f, pos) ==
    IF \E c \in f.chunks : c.pos = pos
    THEN LET c == CHOOSE c \in f.chunks : c.pos = pos
         IN  [tag |-> c.tag, size |-> c.size]
    ELSE ZeroChunk

-----------------------------------------------------------------------------
(* State *)

VARIABLES
    file,       \* the file on disk
    options,    \* the WavFileReaderOptions of the call
    pc,         \* where createWavFileReader stands
    local,      \* the locals of createWavFileReader
    handle,     \* the FileHandle: "none", "open", "closing", "closed"
    reader,     \* the WavFileReader, once constructed
    inflight,   \* the readNext suspended on its positioned read
    result,     \* what the last settled readNext gave its caller
    log         \* what the caller has observed so far

wavVars == <<file, options, pc, local, handle, reader, inflight, result, log>>

VARIABLES
    conf,       \* the pipeline that runs, its sample rate and its source length
    fed,        \* bytes the byte source has produced so far
    srcEnded,   \* the byte source has signalled its end
    buffered,   \* bytes held back by the block stream (_bufferedBytes)
    queue,      \* frames emitted by the source stream, not yet taken by the chain
    stage,      \* the frame held by the chain's async function
    delivered,  \* the frames yielded to the transcription client, in order
    ended,      \* the audio generator has finished
    writes      \* writes the silence filter has made to the block stream

streamVars == <<conf, fed, srcEnded, buffered, queue, stage, delivered, ended, writes>>

VARIABLES
    arg,        \* the argument of the first utility call
    ret,        \* what the last utility call returned
    calls       \* the utility functions called so far, in order

utilVars == <<arg, ret, calls>>

VARIABLES
    session,    \* the pipeline that transcribes and the state of its result stream
    events,     \* the events the result stream has given so far, in order
    lines,      \* the lines written to the transcript file, in order
    fileWriter  \* the transcript file's WriteStream: "open" or "closed"

transcriptVars == <<session, events, lines, fileWriter>>

vars == <<wavVars, streamVars, utilVars, transcriptVars>>

NoReader == [made |-> FALSE]
NoRead == [pending |-> FALSE]
NoResult == [kind |-> "none"]

InitLocal ==
    [file |-> FALSE, fmtChunkSize |-> 0, format |-> "", rate |-> 0, channels |-> 0,
     pos |-> 0, outcome |-> "none", err |-> ""]

\* the calls made, the I/O errors injected and the frame bytes returned so far
InitLog == [reads |-> 0, closes |-> 0, ioFaults |-> 0, delivered |-> 0]

\* a frame: its length, the zero bytes that pad it, and the offset in the byte
\* source of its first byte
NoFrame == [len |-> 0, pad |-> 0, at |-> 0]
NoPipeline == [pipeline |-> "none", sampleRate |-> 0, size |-> 0]

\* the pipelines at rest
StreamIdle ==
    /\ fed = 0
    /\ srcEnded = FALSE
    /\ buffered = 0
    /\ queue = <<>>
    /\ stage = NoFrame
    /\ delivered = <<>>
    /\ ended = FALSE
    /\ writes = 0

\* no utility function is being called
UtilIdle ==
    /\ arg = <<>>
    /\ ret = <<>>
    /\ calls = <<>>

\* no transcription session: the result stream is not there yet
NoSession == [pipeline |-> "none", stream |-> "none"]

TranscriptIdle ==
    /\ session = NoSession
    /\ events = <<>>
    /\ lines = <<>>
    /\ fileWriter = "open"

Init ==
    /\ conf = NoPipeline
    /\ StreamIdle
    /\ UtilIdle
    /\ TranscriptIdle
    /\ file \in Files
    /\ options \in OptionSets
    /\ pc = "open"
    /\ local = InitLocal
    /\ handle = "none"
    /\ reader = NoReader
    /\ inflight = NoRead
    /\ result = NoResult
    /\ log = InitLog

\* whether the environment may fail the next file operation
IoOutcomes == IF log.ioFaults < MaxIoFaults THEN {FALSE, TRUE} ELSE {FALSE}

-----------------------------------------------------------------------------
(* createWavFileReader *)

\* Validate with the channel count checked before the format tag
ValidateChannelsBeforeFormat(h, bytesRead, o) ==
    IF bytesRead # headerSize THEN "FileTooSmall"
    ELSE IF h.tag0 # "RIFF" THEN "RiffTagMissing"
    ELSE IF h.tag8 # "WAVE" THEN "NoWaveChunk"
    ELSE IF h.tag12 # "fmt " THEN "NoFmtChunk"
    ELSE IF h.fmtChunkSize # 16 /\ h.fmtChunkSize # 18 /\ h.fmtChunkSize # 40
         THEN "BadFmtChunkSize"
    ELSE IF \/ h.channels < Coalesce(o.channelMin, DefaultChannelMin)
            \/ h.channels > Coalesce(o.channelMax, DefaultChannelMax)
         THEN "InvalidChannels"
    ELSE IF h.formatTag # 1 /\ h.formatTag # 7 THEN "UnsupportedFormatTag"
    ELSE IF h.rate \notin Coalesce(o.allowedRates, defaultSupportedRates)
         THEN "UnsupportedRate"
    ELSE IF h.blockAlign # h.channels * (IF h.formatTag = 1 THEN 2 ELSE 1)
         THEN "InvalidBytesPerSample"
    ELSE "ok"

\* the check that fails first on the 44 header bytes, "ok" when none does
Validate(h, bytesRead, o) ==
    IF bytesRead # headerSize THEN "FileTooSmall"
    ELSE IF h.tag0 # "RIFF" THEN "RiffTagMissing"
    ELSE IF h.tag8 # "WAVE" THEN "NoWaveChunk"
    ELSE IF h.tag12 # "fmt " THEN "NoFmtChunk"
    ELSE IF h.fmtChunkSize # 16 /\ h.fmtChunkSize # 18 /\ h.fmtChunkSize # 40
         THEN "BadFmtChunkSize"
    ELSE IF h.formatTag # 1 /\ h.formatTag # 7 THEN "UnsupportedFormatTag"
    ELSE IF \/ h.channels < Coalesce(o.channelMin, DefaultChannelMin)
            \/ h.channels > Coalesce(o.channelMax, DefaultChannelMax)
         THEN "InvalidChannels"
    ELSE IF h.rate \notin Coalesce(o.allowedRates, defaultSupportedRates)
         THEN "UnsupportedRate"
    ELSE IF h.blockAlign # h.channels * (IF h.formatTag = 1 THEN 2 ELSE 1)
         THEN "InvalidBytesPerSample"
    ELSE "ok"

FormatOf(formatTag) == IF formatTag = 1 THEN "L16" ELSE "PCMU"

\* new WavFileReader(file, startPos, dataChunkSize, format, rate, channels)
WavFileReader(startPos, dataChunkSize, format, rate, channels) ==
    [made |-> TRUE, format |-> format, rate |-> rate, channels |-> channels,
     dataStartPos |-> startPos, readPos |-> 0, dataChunkSize |-> dataChunkSize,
     maxFrameSamples |-> MaxFrameSeconds * rate,
     bytesPerSample |-> IF format = "L16" THEN 2 * channels ELSE channels]

\* a throw inside the try block: control passes to the finally block
Throw(err) ==
    /\ pc' = "finally"
    /\ local' = [local EXCEPT !.outcome = "throw", !.err = err]

\* the file variable after the reader took the handle over
FileAfterHandOver == FALSE

\* the reader is constructed and returned: control passes to the finally block
Return(dataSize) ==
    /\ reader' = WavFileReader(local.pos + chunkHeaderSize, dataSize, local.format,
                               local.rate, local.channels)
    /\ pc' = "finally"
    /\ local' = [local EXCEPT !.outcome = "return", !.file = FileAfterHandOver]

Open ==
    /\ pc = "open"
    /\ \E io \in IoOutcomes :
         IF io
         THEN /\ Throw("IoError")
              /\ log' = [log EXCEPT !.ioFaults = @ + 1]
              /\ UNCHANGED handle
         ELSE /\ handle' = "open"
              /\ local' = [local EXCEPT !.file = TRUE]
              /\ pc' = "header"
              /\ UNCHANGED log
    /\ UNCHANGED <<file, options, reader, inflight, result>>
    /\ UNCHANGED streamVars
    /\ UNCHANGED utilVars
    /\ UNCHANGED transcriptVars

ReadHeader ==
    /\ pc = "header"
    /\ \E io \in IoOutcomes :
         IF io
         THEN /\ Throw("IoError")
              /\ log' = [log EXCEPT !.ioFaults = @ + 1]
         ELSE LET v == Validate(file.hdr, BytesRead(file, 0, headerSize), options)
              IN  /\ IF v # "ok"
                     THEN Throw(v)
                     ELSE /\ pc' = "scan"
                          /\ local' = [local EXCEPT
                                         !.fmtChunkSize = file.hdr.fmtChunkSize,
                                         !.format = FormatOf(file.hdr.formatTag),
                                         !.channels = file.hdr.channels,
                                         !.rate = file.hdr.rate,
                                         !.pos = 20 + file.hdr.fmtChunkSize]
                  /\ UNCHANGED log
    /\ UNCHANGED <<file, options, handle, reader, inflight, result>>
    /\ UNCHANGED streamVars
    /\ UNCHANGED utilVars
    /\ UNCHANGED transcriptVars

\* NextChunkPos without the 8 bytes of the sub-chunk header
NextChunkPosNoHeader(pos, dataSize) == pos + dataSize + (dataSize % 2)

\* the scan position after a sub-chunk that is not the data chunk
NextChunkPos(pos, dataSize) == pos + chunkHeaderSize + dataSize + (dataSize % 2)

\* one iteration of the search for the data chunk
ScanStep ==
    /\ pc = "scan"
    /\ \E io \in IoOutcomes :
         IF io
         THEN /\ Throw("IoError")
              /\ log' = [log EXCEPT !.ioFaults = @ + 1]
              /\ UNCHANGED reader
         ELSE /\ UNCHANGED log
              /\ IF BytesRead(file, local.pos, chunkHeaderSize) # chunkHeaderSize
                 THEN Throw("NoDataChunk") /\ UNCHANGED reader
                 ELSE LET c == ChunkAt(file, local.pos)
                      IN  IF c.tag = "data"
                          THEN IF c.size = Sentinel
                               THEN /\ pc' = "stat"
                                    /\ UNCHANGED <<local, reader>>
                               ELSE Return(c.size)
                          ELSE /\ local' = [local EXCEPT
                                              !.pos = NextChunkPos(local.pos, c.size)]
                               /\ UNCHANGED <<pc, reader>>
    /\ UNCHANGED <<file, options, handle, inflight, result>>
    /\ UNCHANGED streamVars
    /\ UNCHANGED utilVars
    /\ UNCHANGED transcriptVars

\* the size of a data chunk that spans to the end of the file
OpenEndedSize(size, pos) == size - chunkHeaderSize - pos

Stat ==
    /\ pc = "stat"
    /\ \E io \in IoOutcomes :
         IF io
         THEN /\ Throw("IoError")
              /\ log' = [log EXCEPT !.ioFaults = @ + 1]
              /\ UNCHANGED reader
         ELSE /\ Return(OpenEndedSize(file.size, local.pos))
              /\ UNCHANGED log
    /\ UNCHANGED <<file, options, handle, inflight, result>>
    /\ UNCHANGED streamVars
    /\ UNCHANGED utilVars
    /\ UNCHANGED transcriptVars

\* a finally block that closes nothing
FinallyNeverCloses(localFile) == FALSE

\* file?.close(): whether the finally block closes the handle
FinallyCloses(localFile) == localFile

\* finally { await file?.close() }, then the return value or the error reaches
\* the caller
Finally ==
    /\ pc = "finally"
    /\ handle' = IF FinallyCloses(local.file) THEN "closed" ELSE handle
    /\ pc' = IF local.outcome = "throw" THEN "failed" ELSE "ready"
    /\ UNCHANGED <<file, options, local, reader, inflight, result, log>>
    /\ UNCHANGED streamVars
    /\ UNCHANGED utilVars
    /\ UNCHANGED transcriptVars

-----------------------------------------------------------------------------
(* WavFileReader *)

\* the bytes asked for by readNext(samples)
Ask(r, samples) ==
    (IF samples <= 0 THEN r.rate
     ELSE IF samples > r.maxFrameSamples THEN r.maxFrameSamples
     ELSE samples) * r.bytesPerSample

\* Available without the clamp to the bytes that remain
AvailableUnclamped(r, ask) == ask

Available(r, ask) == Min(r.dataChunkSize - r.readPos, ask)

\* the byte length of bufferFactory(bytes): new Int16Array(bytes / 2) holds
\* floor(bytes / 2) elements of 2 bytes, new Uint8Array(bytes) holds bytes
BufferFactory(format, bytes) ==
    IF format = "L16" THEN 2 * (bytes \div 2) ELSE bytes

\* IsTruncated that only rejects an empty read
IsTruncatedOnlyWhenEmpty(bytesRead, available) == bytesRead = 0

\* whether readNext throws after its positioned read
IsTruncated(bytesRead, available) == bytesRead # available

\* close() that leaves the cursor where it is
ClosedReadPosUnpinned(r) == r.readPos

\* the cursor close() leaves
ClosedReadPos(r) == r.dataChunkSize

\* readNext(samples) up to its await
ReadNextCall(samples) ==
    /\ pc = "ready"
    /\ ~inflight.pending
    /\ log.reads < MaxReads
    /\ LET ask       == Ask(reader, samples)
           pos       == reader.readPos
           available == Available(reader, ask)
       IN  IF available = 0
           THEN /\ result' = [kind |-> "null"]
                /\ log' = [log EXCEPT !.reads = @ + 1]
                /\ UNCHANGED <<reader, inflight>>
           ELSE /\ reader' = [reader EXCEPT !.readPos = @ + available]
                /\ inflight' = [pending |-> TRUE, samples |-> samples, pos |-> pos,
                                available |-> available,
                                bufBytes |-> BufferFactory(reader.format, available),
                                position |-> reader.dataStartPos + pos]
                /\ result' = [kind |-> "pending"]
                /\ log' = [log EXCEPT !.reads = @ + 1]
    /\ UNCHANGED <<file, options, pc, local, handle>>
    /\ UNCHANGED streamVars
    /\ UNCHANGED utilVars
    /\ UNCHANGED transcriptVars

\* a positioned read that is given up when close() is called under it
PendingReadAborted(h, f, pos, len) ==
    IF h = "closing" THEN 0 ELSE BytesRead(f, pos, len)

\* bytesRead of the positioned read in flight on a handle in state h: close()
\* waits for the operations pending on the FileHandle, the read is carried out
PendingRead(h, f, pos, len) == BytesRead(f, pos, len)

\* a readNext that puts the cursor back when its read has failed
ReadNextSettleRollsBack ==
    /\ inflight.pending
    /\ \E io \in IoOutcomes :
         IF io
         THEN /\ result' = [kind |-> "error", err |-> "IoError"]
              /\ log' = [log EXCEPT !.ioFaults = @ + 1]
              /\ reader' = [reader EXCEPT !.readPos = inflight.pos]
         ELSE LET bytesRead == PendingRead(handle, file, inflight.position,
                                           inflight.bufBytes)
              IN  IF IsTruncated(bytesRead, inflight.available)
                  THEN /\ result' = [kind |-> "error", err |-> "TruncatedDataChunk"]
                       /\ reader' = [reader EXCEPT !.readPos = inflight.pos]
                       /\ UNCHANGED log
                  ELSE /\ result' = [kind |-> "frame", bytes |-> inflight.bufBytes,
                                     filled |-> bytesRead,
                                     available |-> inflight.available]
                       /\ log' = [log EXCEPT !.delivered = @ + inflight.bufBytes]
                       /\ UNCHANGED reader
    /\ inflight' = NoRead
    /\ handle' = IF handle = "closing" THEN "closed" ELSE handle
    /\ UNCHANGED <<file, options, pc, local>>
    /\ UNCHANGED streamVars
    /\ UNCHANGED utilVars
    /\ UNCHANGED transcriptVars

\* readNext after its await: the positioned read has settled
ReadNextSettle ==
    /\ inflight.pending
    /\ \E io \in IoOutcomes :
         IF io
         THEN /\ result' = [kind |-> "error", err |-> "IoError"]
              /\ log' = [log EXCEPT !.ioFaults = @ + 1]
         ELSE LET bytesRead == PendingRead(handle, file, inflight.position,
                                           inflight.bufBytes)
              IN  IF IsTruncated(bytesRead, inflight.available)
                  THEN /\ result' = [kind |-> "error", err |-> "TruncatedDataChunk"]
                       /\ UNCHANGED log
                  ELSE /\ result' = [kind |-> "frame", bytes |-> inflight.bufBytes,
                                     filled |-> bytesRead,
                                     available |-> inflight.available]
                       /\ log' = [log EXCEPT !.delivered = @ + inflight.bufBytes]
    /\ inflight' = NoRead
    /\ handle' = IF handle = "closing" THEN "closed" ELSE handle
    /\ UNCHANGED <<file, options, pc, local, reader>>
    /\ UNCHANGED streamVars
    /\ UNCHANGED utilVars
    /\ UNCHANGED transcriptVars

\* a close() that ends the stream by emptying the payload window
CloseClearsPayload ==
    /\ pc = "ready"
    /\ log.closes < MaxCloses
    /\ reader' = [reader EXCEPT !.readPos = 0, !.dataChunkSize = 0]
    /\ handle' = IF handle = "open"
                 THEN (IF inflight.pending THEN "closing" ELSE "closed")
                 ELSE handle
    /\ log' = [log EXCEPT !.closes = @ + 1]
    /\ UNCHANGED <<file, options, pc, local, inflight, result>>
    /\ UNCHANGED streamVars
    /\ UNCHANGED utilVars
    /\ UNCHANGED transcriptVars

\* close(): the cursor is pinned, then the handle is closed; a FileHandle with
\* an operation in flight closes when that operation has settled, and close()
\* on a closed FileHandle resolves
Close ==
    /\ pc = "ready"
    /\ log.closes < MaxCloses
    /\ reader' = [reader EXCEPT !.readPos = ClosedReadPos(reader)]
    /\ handle' = IF handle = "open"
                 THEN (IF inflight.pending THEN "closing" ELSE "closed")
                 ELSE handle
    /\ log' = [log EXCEPT !.closes = @ + 1]
    /\ UNCHANGED <<file, options, pc, local, inflight, result>>
    /\ UNCHANGED streamVars
    /\ UNCHANGED utilVars
    /\ UNCHANGED transcriptVars

-----------------------------------------------------------------------------

\* createWavFileReader alone
NextOpen ==
    \/ Open
    \/ ReadHeader
    \/ ScanStep
    \/ Stat
    \/ Finally

\* an async function resumes once the file operation it awaits has settled
SpecOpen ==
    /\ Init
    /\ [][NextOpen]_vars
    /\ WF_vars(Open) /\ WF_vars(ReadHeader) /\ WF_vars(ScanStep)
    /\ WF_vars(Stat) /\ WF_vars(Finally)

Next ==
    \/ Open
    \/ ReadHeader
    \/ ScanStep
    \/ Stat
    \/ Finally
    \/ \E n \in SampleCounts : ReadNextCall(n)
    \/ ReadNextSettle
    \/ Close

Spec == Init /\ [][Next]_vars

-----------------------------------------------------------------------------
(* Claims about the WAV reader *)

\* the file holds every byte of the payload the reader was constructed over
FileHoldsPayload == file.size >= reader.dataStartPos + reader.dataChunkSize

ReadNextCalled == log'.reads = log.reads + 1
CloseCalled == log'.closes = log.closes + 1

\* C1: the read cursor stays within 0..dataChunkSize in every reachable state
\* and never decreases from one state to the next, whatever sample counts
\* readNext is given and however close() is interleaved.
C1_CursorBoundedMonotone ==
    /\ [](reader.made => 0 <= reader.readPos /\ reader.readPos <= reader.dataChunkSize)
    /\ [][reader.made => reader'.readPos >= reader.readPos]_vars

\* a reader that has advanced by a read with a non-positive sample count and
\* was then closed before its payload was exhausted
C1_Witness ==
    /\ reader.made /\ log.reads >= 1 /\ log.closes >= 1
    /\ log.delivered > 0 /\ log.delivered < reader.dataChunkSize
    /\ reader.readPos = reader.dataChunkSize

\* C2: over a file that holds the declared data chunk the frames returned sum
\* to the declared size once readNext reports end-of-stream; end-of-stream is
\* reported only with the cursor at the payload length; and after an
\* end-of-stream every later readNext reports it again without a file read.
C2_FramesSumToDeclaredSize ==
    /\ [](reader.made /\ FileHoldsPayload /\ log.ioFaults = 0 /\ log.closes = 0
          /\ result.kind = "null"
          => log.delivered = reader.dataChunkSize)
    /\ [](reader.made /\ result.kind = "null" => reader.readPos = reader.dataChunkSize)
    /\ [][result.kind = "null" /\ ReadNextCalled
          => result'.kind = "null" /\ inflight' = inflight]_vars

\* C3: after a close() the cursor equals the payload length and the handle is
\* released (at once, or when the read in flight has settled); every later
\* readNext reports end-of-stream without a file read; a later close() changes
\* nothing.
C3_CloseIdempotentTerminal ==
    /\ [](log.closes >= 1
          => /\ reader.readPos = reader.dataChunkSize
             /\ handle \in {"closing", "closed"}
             /\ (handle = "closing" => inflight.pending))
    /\ [][log.closes >= 1 /\ ReadNextCalled
          => result'.kind = "null" /\ inflight' = inflight]_vars
    /\ [][log.closes >= 1 /\ CloseCalled
          => reader' = reader /\ handle' = handle /\ inflight' = inflight
             /\ result' = result]_vars

\* closed twice before anything was delivered from a non-empty payload, and
\* the one readNext made reported end-of-stream
C3_Witness ==
    /\ reader.made /\ log.closes = 2 /\ log.reads = 1
    /\ reader.dataChunkSize > 0 /\ log.delivered = 0
    /\ result.kind = "null" /\ handle = "closed"

\* C4: a positioned read that returns another byte count than the available
\* bytes makes readNext fail with the truncated-data error and return no
\* frame; a returned frame is filled completely.
C4_ShortReadIsTruncatedData ==
    /\ [](result.kind = "frame"
          => result.filled = result.available /\ result.bytes = result.available)
    /\ [][/\ inflight.pending /\ ~inflight'.pending
          /\ log'.ioFaults = log.ioFaults
          /\ BytesRead(file, inflight.position, inflight.bufBytes) # inflight.available
          => /\ result' = [kind |-> "error", err |-> "TruncatedDataChunk"]
             /\ log'.delivered = log.delivered]_vars

\* a PCMU reader over a file that lacks the last payload byte has failed with
\* the truncated-data error after returning frames
C4_Witness ==
    /\ reader.made /\ reader.format = "PCMU" /\ ~FileHoldsPayload
    /\ result = [kind |-> "error", err |-> "TruncatedDataChunk"]
    /\ log.delivered > 0

\* C5: when createWavFileReader fails after it opened the file, the handle is
\* closed by the time the error reaches the caller; when it succeeds the handle
\* is open and held by the reader alone.
C5_HandleClosedExactlyOnFailure ==
    /\ pc = "failed"
       => /\ ~reader.made
          /\ IF local.file THEN handle = "closed" ELSE handle = "none"
    /\ pc = "finally" /\ local.outcome = "return" => handle = "open" /\ ~local.file
    /\ pc = "ready" /\ log.closes = 0
       => handle = "open" /\ reader.made /\ ~local.file

\* the scan ran out of file after the header had passed: failed, handle closed
C5_Witness ==
    /\ pc = "failed" /\ local.err = "NoDataChunk" /\ handle = "closed"

\* the checks of C6, in the order the claim lists them
RECURSIVE DataChunkFound(_, _)
DataChunkFound(f, pos) ==
    IF f.size < pos + 8 THEN FALSE
    ELSE IF ChunkAt(f, pos).tag = "data" THEN TRUE
    ELSE DataChunkFound(f, pos + 8 + ChunkAt(f, pos).size + (ChunkAt(f, pos).size % 2))

CheckPasses(i, f, o) ==
    CASE i = 1 -> f.size >= 44
      [] i = 2 -> f.hdr.tag0 = "RIFF"
      [] i = 3 -> f.hdr.tag8 = "WAVE"
      [] i = 4 -> f.hdr.tag12 = "fmt "
      [] i = 5 -> f.hdr.fmtChunkSize \in {16, 18, 40}
      [] i = 6 -> f.hdr.formatTag \in {1, 7}
      [] i = 7 -> /\ Coalesce(o.channelMin, 1) <= f.hdr.channels
                  /\ f.hdr.channels <= Coalesce(o.channelMax, 16)
      [] i = 8 -> f.hdr.rate \in Coalesce(o.allowedRates, {8000, 16000, 44100, 48000})
      [] i = 9 -> f.hdr.blockAlign = f.hdr.channels * (IF f.hdr.formatTag = 1 THEN 2 ELSE 1)
      [] i = 10 -> DataChunkFound(f, 20 + f.hdr.fmtChunkSize)

CheckError ==
    <<"FileTooSmall", "RiffTagMissing", "NoWaveChunk", "NoFmtChunk", "BadFmtChunkSize",
      "UnsupportedFormatTag", "InvalidChannels", "UnsupportedRate",
      "InvalidBytesPerSample", "NoDataChunk">>

\* the error kind of section 7 of the specification for each error of the code
ErrorKind(err) ==
    CASE err = "FileTooSmall" -> "TooSmall"
      [] err \in {"RiffTagMissing", "NoWaveChunk", "NoFmtChunk", "BadFmtChunkSize",
                  "InvalidBytesPerSample"} -> "InvalidContainer"
      [] err = "UnsupportedFormatTag" -> "UnsupportedFormat"
      [] err = "InvalidChannels" -> "InvalidChannels"
      [] err = "UnsupportedRate" -> "UnsupportedRate"
      [] err = "NoDataChunk" -> "NoDataChunk"
      [] OTHER -> err

\* the first check the file violates, 0 when it passes them all
FirstViolated(f, o) ==
    LET bad == { i \in 1..10 : ~CheckPasses(i, f, o) }
    IN  IF bad = {} THEN 0 ELSE CHOOSE i \in bad : \A j \in bad : i <= j

\* C6: without I/O errors createWavFileReader succeeds exactly when the file
\* passes all ten checks, and otherwise fails with the error of the first
\* check violated; a 10-byte file fails TooSmall, "RIFX" InvalidContainer,
\* format tag 3 UnsupportedFormat, 3 channels under channelMax 2
\* InvalidChannels.
C6_FirstViolationWins ==
    LET v == FirstViolated(file, options)
        failedNoIo == pc = "failed" /\ log.ioFaults = 0
    IN  /\ failedNoIo => v # 0 /\ local.err = CheckError[v]
        /\ pc = "ready" => v = 0
        /\ failedNoIo /\ file.size = 10 => ErrorKind(local.err) = "TooSmall"
        /\ failedNoIo /\ file.size >= 44 /\ file.hdr.tag0 = "RIFX"
           => ErrorKind(local.err) = "InvalidContainer"
        /\ failedNoIo /\ Deviations(file.hdr) = 1 /\ file.size >= 44
           /\ file.hdr.formatTag = 3
           => ErrorKind(local.err) = "UnsupportedFormat"
        /\ failedNoIo /\ Deviations(file.hdr) = 1 /\ file.size >= 44
           /\ file.hdr.channels = 3 /\ options.channelMax = <<2>>
           => ErrorKind(local.err) = "InvalidChannels"

\* a file with format tag 3 and 3 channels under channelMax 2 has failed on
\* the format tag, the earlier of its two violated checks
C6_Witness ==
    /\ pc = "failed" /\ log.ioFaults = 0
    /\ file.hdr.formatTag = 3 /\ file.hdr.channels = 3 /\ options.channelMax = <<2>>
    /\ local.err = "UnsupportedFormatTag"

\* C7: the search for the data chunk terminates; it starts at offset
\* 20 + fmtChunkSize; an iteration fails NoDataChunk when fewer than 8 bytes
\* can be read, ends at a chunk tagged "data", whose payload starts 8 bytes
\* after the chunk's offset, and otherwise advances by
\* 8 + size + (size mod 2), which is at least 8.
C7_ScanTerminates ==
    /\ <>(pc \in {"ready", "failed"})
    /\ [][pc = "header" /\ pc' = "scan" => local'.pos = 20 + file.hdr.fmtChunkSize]_vars
    /\ [][pc = "scan" /\ log'.ioFaults = log.ioFaults
          => LET c == ChunkAt(file, local.pos)
             IN  IF BytesRead(file, local.pos, 8) < 8
                 THEN /\ pc' = "finally" /\ local'.outcome = "throw"
                      /\ local'.err = "NoDataChunk"
                 ELSE IF c.tag = "data"
                 THEN \/ pc' = "stat" /\ local'.pos = local.pos
                      \/ /\ pc' = "finally" /\ local'.outcome = "return"
                         /\ reader'.dataStartPos = local.pos + 8
                 ELSE /\ pc' = "scan"
                      /\ local'.pos = local.pos + 8 + c.size + (c.size % 2)
                      /\ local'.pos >= local.pos + 8]_vars
    /\ [][pc = "stat" /\ log'.ioFaults = log.ioFaults
          => /\ pc' = "finally" /\ local'.outcome = "return"
             /\ reader'.dataStartPos = local.pos + 8]_vars

\* the scan stepped over an empty sub-chunk and an odd one and found the
\* data chunk behind them
C7_Witness ==
    /\ pc = "ready" /\ reader.made
    /\ \E c \in file.chunks : c.tag = "LIST" /\ c.size = 0
    /\ \E c \in file.chunks : c.tag = "LIST" /\ c.size = 3
    /\ reader.dataStartPos = 20 + file.hdr.fmtChunkSize + 8 + (8 + 4) + 8

\* C8: a data chunk that declares the sentinel size gives a payload length of
\* fileLength - 8 - chunkOffset, never negative, and reading that payload
\* never raises the truncated-data error; any other declared size is the
\* payload length.
C8_SentinelPayloadReadable ==
    reader.made
    => LET off == reader.dataStartPos - 8
           c   == ChunkAt(file, off)
       IN  IF c.size = Sentinel
           THEN /\ reader.dataChunkSize = file.size - 8 - off
                /\ reader.dataChunkSize >= 0
                /\ result # [kind |-> "error", err |-> "TruncatedDataChunk"]
           ELSE reader.dataChunkSize = c.size

\* the samples readNext(n) reads per channel, and the bytes of one sample of
\* every channel, as C9 states them
SamplesOf(n, rate) == IF n <= 0 THEN rate ELSE IF n > 10 * rate THEN 10 * rate ELSE n
BlockAlignOf(r) == r.channels * (IF r.format = "L16" THEN 2 ELSE 1)
FrameBytes(r, pos, n) == Min(r.dataChunkSize - pos, SamplesOf(n, r.rate) * BlockAlignOf(r))

\* C9: with bytes remaining, readNext(n) issues its positioned read at
\* dataStart + cursor, advances the cursor by
\* min(remaining, k * blockAlign) and returns a buffer of exactly that many
\* bytes.
C9_ReadNextFrameSize ==
    /\ [][ReadNextCalled /\ reader.readPos < reader.dataChunkSize
          => /\ inflight'.pending
             /\ inflight'.bufBytes = FrameBytes(reader, reader.readPos, inflight'.samples)
             /\ reader'.readPos
                  = reader.readPos + FrameBytes(reader, reader.readPos, inflight'.samples)
             /\ inflight'.position = reader.dataStartPos + reader.readPos]_vars
    /\ [][/\ inflight.pending /\ ~inflight'.pending
          /\ log'.ioFaults = log.ioFaults /\ FileHoldsPayload
          => /\ result'.kind = "frame"
             /\ result'.bytes = FrameBytes(reader, inflight.pos, inflight.samples)]_vars

-----------------------------------------------------------------------------
(* The streaming pipelines: CallSimulator.writeTranscriptEvents and          *)
(* Transcriber.startTranscription                                            *)

\* Bounds of the model
\* writes the silence filter makes to the block stream
MaxWrites == 3
\* frames the file stream and the chain hold between the read and the consumer
StreamBuffer == 2

\* Program constants
BYTES_PER_SAMPLE == 2
NUMBER_OF_CHANNELS == 2
SAMPLING_RATE == 8000
CallSimulator_CHUNK_SIZE_IN_MS == 200
Transcriber_CHUNK_SIZE_IN_MS == 100

\* sample rates given on the command line, lengths of the media file, and the
\* sizes of the writes of the silence filter's output
StreamRates == {8000, 11025, 16000}
MediaSizes == {0, 47, 3200, 4844, 32044}
WriteSizes == {100, 1600, 3200, 32000}

StreamConfs ==
    { [pipeline |-> "CallSimulator", sampleRate |-> r, size |-> n] :
        r \in StreamRates, n \in MediaSizes }
    \cup { [pipeline |-> "Transcriber", sampleRate |-> SAMPLING_RATE, size |-> 0] }

\* CHUNK_SIZE of CallSimulator.writeTranscriptEvents
CallSimulatorChunkSize(sampleRate) ==
    ((sampleRate * BYTES_PER_SAMPLE) * CallSimulator_CHUNK_SIZE_IN_MS) \div 1000

\* CHUNK_SIZE of Transcriber.startTranscription
TranscriberChunkSize ==
    ((SAMPLING_RATE * BYTES_PER_SAMPLE * NUMBER_OF_CHANNELS)
       * Transcriber_CHUNK_SIZE_IN_MS) \div 1000

ChunkSize(c) ==
    IF c.pipeline = "CallSimulator" THEN CallSimulatorChunkSize(c.sampleRate)
    ELSE TranscriberChunkSize

\* bytes one read of fs.createReadStream(file, { highWaterMark }) gives; 0 at
\* the end of the file
FileStreamRead(size, pos, highWaterMark) == Min(highWaterMark, size - pos)

\* the full blocks BlockStream._transform emits once n bytes are buffered
RECURSIVE FullBlocks(_, _)
FullBlocks(n, size) ==
    IF n < size THEN <<>>
    ELSE <<[len |-> size, pad |-> 0]>> \o FullBlocks(n - size, size)

\* a flush that emits the buffered bytes as they are (nopad)
BlockFlushUnpadded(n, size) ==
    IF n > 0 THEN <<[len |-> n, pad |-> 0]>> ELSE <<>>

\* BlockStream._flush with the default zeroPadding: the buffered bytes are
\* zero-padded to one block
BlockFlush(n, size) ==
    IF n > 0 THEN <<[len |-> size, pad |-> size - n]>> ELSE <<>>

\* the frames as they leave the byte source, the first one at offset at
RECURSIVE Stamp(_, _)
Stamp(frames, at) ==
    IF frames = <<>> THEN <<>>
    ELSE <<[len |-> Head(frames).len, pad |-> Head(frames).pad, at |-> at]>>
         \o Stamp(Tail(frames), at + Head(frames).len - Head(frames).pad)

\* no WAV reader is being created
WavIdle ==
    /\ file = [size |-> 0, hdr |-> CanonicalHeader, chunks |-> {}]
    /\ options = DefaultOptions
    /\ pc = "idle"
    /\ local = InitLocal
    /\ handle = "none"
    /\ reader = NoReader
    /\ inflight = NoRead
    /\ result = NoResult
    /\ log = InitLog

InitStream ==
    /\ conf \in StreamConfs
    /\ StreamIdle
    /\ WavIdle
    /\ UtilIdle
    /\ TranscriptIdle

\* the file stream of CallSimulator reads its next chunk, or finds the end
FileStreamData ==
    /\ conf.pipeline = "CallSimulator"
    /\ ~srcEnded
    /\ Len(queue) < StreamBuffer
    /\ LET n == FileStreamRead(conf.size, fed, ChunkSize(conf))
       IN  IF n > 0
           THEN /\ queue' = Append(queue, [len |-> n, pad |-> 0, at |-> fed])
                /\ fed' = fed + n
                /\ UNCHANGED srcEnded
           ELSE /\ srcEnded' = TRUE
                /\ UNCHANGED <<queue, fed>>
    /\ UNCHANGED <<conf, buffered, stage, delivered, ended, writes>>
    /\ UNCHANGED wavVars
    /\ UNCHANGED utilVars
    /\ UNCHANGED transcriptVars

\* the silence filter writes n bytes of its output to the block stream
BlockStreamWrite(n) ==
    /\ conf.pipeline = "Transcriber"
    /\ ~srcEnded
    /\ writes < MaxWrites
    /\ writes' = writes + 1
    /\ fed' = fed + n
    /\ queue' = queue \o Stamp(FullBlocks(buffered + n, ChunkSize(conf)),
                               fed - buffered)
    /\ buffered' = (buffered + n) % ChunkSize(conf)
    /\ UNCHANGED <<conf, srcEnded, stage, delivered, ended>>
    /\ UNCHANGED wavVars
    /\ UNCHANGED utilVars
    /\ UNCHANGED transcriptVars

\* the silence filter ends its output: the block stream is flushed
BlockStreamEnd ==
    /\ conf.pipeline = "Transcriber"
    /\ ~srcEnded
    /\ srcEnded' = TRUE
    /\ queue' = queue \o Stamp(BlockFlush(buffered, ChunkSize(conf)),
                               fed - buffered)
    /\ buffered' = 0
    /\ UNCHANGED <<conf, fed, stage, delivered, ended, writes>>
    /\ UNCHANGED wavVars
    /\ UNCHANGED utilVars
    /\ UNCHANGED transcriptVars

\* a chain that hands its function the newest frame of the source
ChainTakeNewest ==
    /\ conf.pipeline # "none"
    /\ queue # <<>>
    /\ stage = NoFrame
    /\ stage' = queue[Len(queue)]
    /\ queue' = SubSeq(queue, 1, Len(queue) - 1)
    /\ UNCHANGED <<conf, fed, srcEnded, buffered, delivered, ended, writes>>
    /\ UNCHANGED wavVars
    /\ UNCHANGED utilVars
    /\ UNCHANGED transcriptVars

\* a chain that calls its function again before the call before has returned
ChainTakeEager ==
    /\ conf.pipeline # "none"
    /\ queue # <<>>
    /\ stage' = Head(queue)
    /\ queue' = Tail(queue)
    /\ UNCHANGED <<conf, fed, srcEnded, buffered, delivered, ended, writes>>
    /\ UNCHANGED wavVars
    /\ UNCHANGED utilVars
    /\ UNCHANGED transcriptVars

\* the chain's async function is called with the next frame
ChainTake ==
    /\ conf.pipeline # "none"
    /\ queue # <<>>
    /\ stage = NoFrame
    /\ stage' = Head(queue)
    /\ queue' = Tail(queue)
    /\ UNCHANGED <<conf, fed, srcEnded, buffered, delivered, ended, writes>>
    /\ UNCHANGED wavVars
    /\ UNCHANGED utilVars
    /\ UNCHANGED transcriptVars

\* the async function returns its frame (in Transcriber once the timer has
\* fired) and the generator yields it as an AudioEvent
ChainYield ==
    /\ stage # NoFrame
    /\ delivered' = Append(delivered, stage)
    /\ stage' = NoFrame
    /\ UNCHANGED <<conf, fed, srcEnded, buffered, queue, ended, writes>>
    /\ UNCHANGED wavVars
    /\ UNCHANGED utilVars
    /\ UNCHANGED transcriptVars

\* the chain has drained the ended source: the generator returns
StreamEnd ==
    /\ conf.pipeline # "none"
    /\ srcEnded /\ queue = <<>> /\ stage = NoFrame
    /\ ~ended
    /\ ended' = TRUE
    /\ UNCHANGED <<conf, fed, srcEnded, buffered, queue, stage, delivered, writes>>
    /\ UNCHANGED wavVars
    /\ UNCHANGED utilVars
    /\ UNCHANGED transcriptVars

NextStream ==
    \/ FileStreamData
    \/ \E n \in WriteSizes : BlockStreamWrite(n)
    \/ BlockStreamEnd
    \/ ChainTake
    \/ ChainYield
    \/ StreamEnd

SpecStream == InitStream /\ [][NextStream]_vars

-----------------------------------------------------------------------------
(* Claims about the streaming pipelines *)

\* the bytes of the byte source: the media file, or what the filter has written
SourceLength == IF conf.pipeline = "CallSimulator" THEN conf.size ELSE fed

\* the source bytes the frames carry (their lengths without the padding)
RECURSIVE AudioBytes(_)
AudioBytes(frames) ==
    IF frames = <<>> THEN 0
    ELSE Head(frames).len - Head(frames).pad + AudioBytes(Tail(frames))

\* bytesPerSample x channels of the audio declared to the transcription service
SampleFrameBytes == BYTES_PER_SAMPLE * NUMBER_OF_CHANNELS

CeilDiv(a, b) == (a + b - 1) \div b

-----------------------------------------------------------------------------
(* Claims about the chunk size, the pacing and the source of the frames *)

\* the duration of audio a frame is configured to hold
ChunkSizeInMs(c) ==
    IF c.pipeline = "CallSimulator" THEN CallSimulator_CHUNK_SIZE_IN_MS
    ELSE Transcriber_CHUNK_SIZE_IN_MS

\* sampleRate x bytesPerSample x channelCount, with the channel count declared
\* to the transcription service
ByteRate(c) == c.sampleRate * BYTES_PER_SAMPLE * NUMBER_OF_CHANNELS

RoundDown(n, m) == m * (n \div m)

\* C11: the configured chunk size equals byteRate x durationMs / 1000 rounded
\* down to a whole multiple of bytesPerSample x channelCount, for every sample
\* rate, in CallSimulator (200 ms) and in Transcriber (100 ms).
C11_ChunkSizeIsDurationOfAudio ==
    conf.pipeline # "none"
    => ChunkSize(conf) = RoundDown((ByteRate(conf) * ChunkSizeInMs(conf)) \div 1000,
                                   SampleFrameBytes)

\* the frame the chain's function holds, as a sequence
Staged == IF stage = NoFrame THEN <<>> ELSE <<stage>>

\* the frames the block stream has emitted: the full blocks of the bytes
\* written to it and, once it has ended, its last block
BlockStreamEmitted ==
    LET cs == ChunkSize(conf)
    IN  Stamp(FullBlocks(fed, cs), 0)
        \o (IF srcEnded THEN Stamp(BlockFlush(fed % cs, cs), cs * (fed \div cs))
            ELSE <<>>)

\* C12: in Transcriber the frames yielded to the transcription client are, in
\* every interleaving of the timer and the writes to the block stream, a prefix
\* of the frames the block stream has emitted, the frames not yet yielded wait
\* in order behind them, and the sequence ends only when every emitted frame
\* has been yielded.
C12_PacingKeepsFrames ==
    conf.pipeline = "Transcriber"
    => /\ delivered \o Staged \o queue = BlockStreamEmitted
       /\ ended => srcEnded /\ delivered = BlockStreamEmitted

\* the filter wrote 1600 bytes while a frame was waiting for the timer, then
\* ended; all three frames were yielded, the padded one last
C12_Witness ==
    /\ conf.pipeline = "Transcriber" /\ ended /\ fed = 8000 /\ writes = 3
    /\ Len(delivered) = 3 /\ delivered[3].pad = 1600

\* C13: before a frame is handed to the transcription consumer the input has
\* been validated as a WAV container, and no delivered frame holds a byte of
\* the RIFF/fmt header: every frame starts at or after the 44 header bytes.
C13_OnlyValidatedPayloadStreamed ==
    conf.pipeline # "none" /\ delivered # <<>>
    => /\ pc = "ready"
       /\ conf.pipeline = "CallSimulator"
          => \A i \in 1..Len(delivered) : delivered[i].at >= headerSize

-----------------------------------------------------------------------------
(* Claims about close() under a read in flight *)

\* C14: close() may come while a readNext is suspended on its read; once both
\* have settled the cursor equals the payload length and the handle is closed,
\* every later readNext reports end-of-stream, and what the suspended readNext
\* gives (frame or truncated-data error) is what the file and the read decide,
\* the same whether close() came before the read settled or not.
C14_CloseUnderReadDeterministic ==
    /\ [](log.closes >= 1 /\ ~inflight.pending
          => reader.readPos = reader.dataChunkSize /\ handle = "closed")
    /\ [][log.closes >= 1 /\ ReadNextCalled => result'.kind = "null"]_vars
    /\ [][inflight.pending /\ ~inflight'.pending /\ log'.ioFaults = log.ioFaults
          => result' =
               IF BytesRead(file, inflight.position, inflight.bufBytes)
                    = inflight.available
               THEN [kind |-> "frame", bytes |-> inflight.bufBytes,
                     filled |-> inflight.available,
                     available |-> inflight.available]
               ELSE [kind |-> "error", err |-> "TruncatedDataChunk"]]_vars

\* close() has come while the read is in flight: the cursor is pinned past the
\* bytes being read and the handle waits for the read to settle
C14_Witness ==
    /\ log.closes = 1 /\ inflight.pending /\ handle = "closing"
    /\ reader.readPos = reader.dataChunkSize
    /\ inflight.pos + inflight.available < reader.dataChunkSize

-----------------------------------------------------------------------------
(* The u-law codec                                                           *)

\* Bounds of the model
\* samples tried beyond each end of the 16-bit range
SampleMargin == 300
\* scalar codec calls chained on one value
MaxCalls == 2

\* Lookup table to convert u-law bytes to their Linear-16 sample values
ulawToL16Lut ==
    << -32124, -31100, -30076, -29052, -28028, -27004, -25980, -24956,
       -23932, -22908, -21884, -20860, -19836, -18812, -17788, -16764,
       -15996, -15484, -14972, -14460, -13948, -13436, -12924, -12412,
       -11900, -11388, -10876, -10364, -9852, -9340, -8828, -8316,
       -7932, -7676, -7420, -7164, -6908, -6652, -6396, -6140,
       -5884, -5628, -5372, -5116, -4860, -4604, -4348, -4092,
       -3900, -3772, -3644, -3516, -3388, -3260, -3132, -3004,
       -2876, -2748, -2620, -2492, -2364, -2236, -2108, -1980,
       -1884, -1820, -1756, -1692, -1628, -1564, -1500, -1436,
       -1372, -1308, -1244, -1180, -1116, -1052, -988, -924,
       -876, -844, -812, -780, -748, -716, -684, -652,
       -620, -588, -556, -524, -492, -460, -428, -396,
       -372, -356, -340, -324, -308, -292, -276, -260,
       -244, -228, -212, -196, -180, -164, -148, -132,
       -120, -112, -104, -96, -88, -80, -72, -64,
       -56, -48, -40, -32, -24, -16, -8, -1,
       32124, 31100, 30076, 29052, 28028, 27004, 25980, 24956,
       23932, 22908, 21884, 20860, 19836, 18812, 17788, 16764,
       15996, 15484, 14972, 14460, 13948, 13436, 12924, 12412,
       11900, 11388, 10876, 10364, 9852, 9340, 8828, 8316,
       7932, 7676, 7420, 7164, 6908, 6652, 6396, 6140,
       5884, 5628, 5372, 5116, 4860, 4604, 4348, 4092,
       3900, 3772, 3644, 3516, 3388, 3260, 3132, 3004,
       2876, 2748, 2620, 2492, 2364, 2236, 2108, 1980,
       1884, 1820, 1756, 1692, 1628, 1564, 1500, 1436,
       1372, 1308, 1244, 1180, 1116, 1052, 988, 924,
       876, 844, 812, 780, 748, 716, 684, 652,
       620, 588, 556, 524, 492, 460, 428, 396,
       372, 356, 340, 324, 308, 292, 276, 260,
       244, 228, 212, 196, 180, 164, 148, 132,
       120, 112, 104, 96, 88, 80, 72, 64,
       56, 48, 40, 32, 24, 16, 8, 0 >>

\* Lookup table to determine the u-law exponent from the clamped absolute
\* sample value
ulawExpLut ==
    << 0, 1, 2, 2, 3, 3, 3, 3, 4, 4, 4, 4, 4, 4, 4, 4,
       5, 5, 5, 5, 5, 5, 5, 5, 5, 5, 5, 5, 5, 5, 5, 5,
       6, 6, 6, 6, 6, 6, 6, 6, 6, 6, 6, 6, 6, 6, 6, 6,
       6, 6, 6, 6, 6, 6, 6, 6, 6, 6, 6, 6, 6, 6, 6, 6,
       7, 7, 7, 7, 7, 7, 7, 7, 7, 7, 7, 7, 7, 7, 7, 7,
       7, 7, 7, 7, 7, 7, 7, 7, 7, 7, 7, 7, 7, 7, 7, 7,
       7, 7, 7, 7, 7, 7, 7, 7, 7, 7, 7, 7, 7, 7, 7, 7,
       7, 7, 7, 7, 7, 7, 7, 7, 7, 7, 7, 7, 7, 7, 7, 7 >>

\* lut[i] of a typed array: the element, undefined outside its index range
TypedArrayGet(lut, i) ==
    IF i \in 0..(Len(lut) - 1) THEN <<lut[i + 1]>> ELSE Undefined

\* x of ulawFromL16Sample without the clamp of the magnitude
ulawBiasedUnclamped(sample) ==
    IF sample < 0 THEN -sample + 132 ELSE sample + 132

\* x of ulawFromL16Sample: the magnitude, clamped, with the bias added
ulawBiased(sample) ==
    IF sample < 0
    THEN (IF sample <= -32635 THEN 32635 ELSE -sample) + 132
    ELSE (IF sample >= 32635 THEN 32635 ELSE sample) + 132

\* 2^n
RECURSIVE Pow2(_)
Pow2(n) == IF n = 0 THEN 1 ELSE 2 * Pow2(n - 1)

\* ulawFromL16Sample that takes every sample for a non-negative one
ulawFromL16SampleUnsigned(sample) ==
    LET x   == ulawBiased(sample)
        exp == TypedArrayGet(ulawExpLut, x \div 256)
    IN  IF exp = Undefined THEN 255 - (x % 16)
        ELSE 255 - (exp[1] * 16 + ((x \div Pow2(exp[1] + 3)) % 16))

\* ulawFromL16Sample: x >> 8 indexes the exponent table; an undefined exponent
\* shifts by 0 and contributes no exponent bits
ulawFromL16Sample(sample) ==
    LET x    == ulawBiased(sample)
        ulaw == IF sample < 0 THEN 127 ELSE 255
        exp  == TypedArrayGet(ulawExpLut, x \div 256)
    IN  IF exp = Undefined THEN ulaw - (x % 16)
        ELSE ulaw - (exp[1] * 16 + ((x \div Pow2(exp[1] + 3)) % 16))

\* ulawToL16Sample with the value of G.711 for the byte 0x7F
ulawToL16SampleG711(sample) ==
    IF sample = 127 THEN 0 ELSE Coalesce(TypedArrayGet(ulawToL16Lut, sample), 0)

\* ulawToL16Sample that reads the table one entry further
ulawToL16SampleShifted(sample) ==
    Coalesce(TypedArrayGet(ulawToL16Lut, sample + 1), 0)

\* ulawToL16Sample: ulawToL16Lut[sample] ?? 0
ulawToL16Sample(sample) == Coalesce(TypedArrayGet(ulawToL16Lut, sample), 0)

\* the samples and bytes the scalar functions are called with
SampleInputs ==
    ((-32768 - SampleMargin)..(32767 + SampleMargin)) \cup {-1000000, 1000000}

InitCodec ==
    /\ conf = NoPipeline
    /\ StreamIdle
    /\ WavIdle
    /\ TranscriptIdle
    /\ arg \in SampleInputs
    /\ ret = arg
    /\ calls = <<>>

\* ulawFromL16Sample is called with the value at hand
CallUlawFromL16Sample ==
    /\ Len(calls) < MaxCalls
    /\ ret' = ulawFromL16Sample(ret)
    /\ calls' = Append(calls, "ulawFromL16Sample")
    /\ UNCHANGED arg
    /\ UNCHANGED <<wavVars, streamVars, transcriptVars>>

\* ulawToL16Sample is called with the value at hand
CallUlawToL16Sample ==
    /\ Len(calls) < MaxCalls
    /\ ret' = ulawToL16Sample(ret)
    /\ calls' = Append(calls, "ulawToL16Sample")
    /\ UNCHANGED arg
    /\ UNCHANGED <<wavVars, streamVars, transcriptVars>>

NextCodec ==
    \/ CallUlawFromL16Sample
    \/ CallUlawToL16Sample

SpecCodec == InitCodec /\ [][NextCodec]_vars

-----------------------------------------------------------------------------
(* Claims about the scalar codec functions *)

\* C16: ulawFromL16Sample is total and saturating: for every integer sample,
\* in the 16-bit range or beyond it, the biased magnitude x lies in 132..32767,
\* the exponent table index x >> 8 in 0..127 and the result in 0..255; every
\* sample >= 32635 encodes like 32767, to 0x80, and every sample <= -32635
\* like -32768, to 0x00. ulawToL16Sample gives a value in -32768..32767 for
\* every byte and 0 for an index outside 0..255.
C16_CodecTotalSaturating ==
    /\ calls = <<"ulawFromL16Sample">>
       => /\ ulawBiased(arg) \in 132..32767
          /\ (ulawBiased(arg) \div 256) \in 0..127
          /\ ret \in 0..255
          /\ arg >= 32635 => ret = 128 /\ ret = ulawFromL16Sample(32767)
          /\ arg <= -32635 => ret = 0 /\ ret = ulawFromL16Sample(-32768)
    /\ calls = <<"ulawToL16Sample">>
       => /\ ret \in -32768..32767
          /\ arg \notin 0..255 => ret = 0

\* a sample below the 16-bit range has been encoded, to 0x00
C16_Witness ==
    /\ calls = <<"ulawFromL16Sample">> /\ arg < -32768 /\ ret = 0

\* the expansion of G.711 for the u-law byte b: the complemented byte holds
\* the sign, a 3-bit exponent and a 4-bit mantissa
G711Decode(b) ==
    LET u == 255 - b
        t == (((u % 16) * 8) + 132) * Pow2((u \div 16) % 8)
    IN  IF u >= 128 THEN 132 - t ELSE t - 132

\* C17 as stated: for every byte b, ulawToL16Sample(b) is the G.711 value for
\* b; decode(0xFF) = 0 and decode(0x7F) = -8.
C17_DecodeIsG711Reference ==
    calls = <<"ulawToL16Sample">> /\ arg \in 0..255
    => /\ ret = G711Decode(arg)
       /\ arg = 255 => ret = 0
       /\ arg = 127 => ret = -8

\* C17 as amended: for every byte b but 0x7F, ulawToL16Sample(b) is the G.711
\* value for b; decode(0x7F) = -1, where G.711 gives 0; decode(0xFF) = 0 and
\* decode(0x7E) = -8.
C17_DecodeTable ==
    calls = <<"ulawToL16Sample">> /\ arg \in 0..255
    => /\ arg # 127 => ret = G711Decode(arg)
       /\ arg = 127 => ret = -1 /\ G711Decode(arg) = 0
       /\ arg = 255 => ret = 0
       /\ arg = 126 => ret = -8

\* the byte 0x7F has been decoded, to -1
C17_Witness ==
    /\ calls = <<"ulawToL16Sample">> /\ arg = 127 /\ ret = -1

\* C18: for every sample s in -32768..32767, decode(encode(s)) is negative
\* exactly when s is and differs from s by at most 655.
C18_RoundTripWithinQuantization ==
    calls = <<"ulawFromL16Sample", "ulawToL16Sample">> /\ arg \in -32768..32767
    => /\ (arg < 0) <=> (ret < 0)
       /\ ret - arg <= 655
       /\ arg - ret <= 655

\* -32768 was encoded and decoded again: -32124, 644 away
C18_Witness ==
    /\ calls = <<"ulawFromL16Sample", "ulawToL16Sample">>
    /\ arg = -32768 /\ ret = -32124

-----------------------------------------------------------------------------
(* The bulk codec functions                                                  *)

\* Bounds of the model
\* elements of the arrays and bytes of the buffers the bulk functions are given
MaxBufLen == 3

ByteValues == {0, 1, 127, 128, 255}
Int16Values == {-32768, -1, 0, 32767}
NumberValues == {-40000, 5, 40000}

\* the sequences over S of at most n elements
RECURSIVE SeqsUpTo(_, _)
SeqsUpTo(S, n) ==
    IF n = 0 THEN {<<>>}
    ELSE LET shorter == SeqsUpTo(S, n - 1)
         IN  shorter
             \cup {Append(q, x) : q \in {t \in shorter : Len(t) = n - 1}, x \in S}

\* the arguments of ulawToL16 and ulawFromL16, by their type
BulkInputs ==
    { [type |-> t, data |-> q] :
        t \in {"Uint8Array", "DataView"}, q \in SeqsUpTo(ByteValues, MaxBufLen) }
    \cup { [type |-> "Int16Array", data |-> q] : q \in SeqsUpTo(Int16Values, MaxBufLen) }
    \cup { [type |-> "Array", data |-> q] : q \in SeqsUpTo(NumberValues, MaxBufLen) }

Returned(v) == [kind |-> "return", value |-> v]
Thrown(e) == [kind |-> "throw", err |-> e]

\* new Uint8Array(size): the fraction of size is dropped, the elements are 0
Uint8ArrayOf(twiceSize) == [i \in 1..(twiceSize \div 2) |-> 0]

\* res[i] = v on a Uint8Array: v modulo 256, no effect outside the array
Uint8ArraySet(res, i, v) ==
    IF i \in 0..(Len(res) - 1) THEN [res EXCEPT ![i + 1] = v % 256] ELSE res

\* dataview.getInt16(s, true) within the view
GetInt16(bytes, s) ==
    LET u == bytes[s + 1] + 256 * bytes[s + 2]
    IN  IF u >= 32768 THEN u - 65536 ELSE u

encodeFromArray(data) ==
    Returned([i \in 1..Len(data) |-> ulawFromL16Sample(data[i]) % 256])

\* the loop of encodeFromDataView: it runs while i < byteLength / 2, and
\* getInt16 throws a RangeError when the two bytes at s are not in the view
RECURSIVE encodeFromDataViewLoop(_, _, _)
encodeFromDataViewLoop(bytes, i, res) ==
    IF 2 * i >= Len(bytes) THEN Returned(res)
    ELSE IF 2 * i + 2 > Len(bytes) THEN Thrown("RangeError")
    ELSE encodeFromDataViewLoop(bytes, i + 1,
             Uint8ArraySet(res, i, ulawFromL16Sample(GetInt16(bytes, 2 * i))))

encodeFromDataView(bytes) ==
    encodeFromDataViewLoop(bytes, 0, Uint8ArrayOf(Len(bytes)))

\* ulawToL16: an undefined table entry is stored as 0
ulawToL16(ulawBuf) ==
    Returned([i \in 1..Len(ulawBuf) |->
                Coalesce(TypedArrayGet(ulawToL16Lut, ulawBuf[i]), 0)])

ulawFromL16(src) ==
    IF src.type = "Int16Array" THEN encodeFromArray(src.data)
    ELSE IF src.type = "DataView" THEN encodeFromDataView(src.data)
    ELSE IF src.type = "Uint8Array" THEN encodeFromDataView(src.data)
    ELSE encodeFromArray(src.data)

InitBulk ==
    /\ conf = NoPipeline
    /\ StreamIdle
    /\ WavIdle
    /\ TranscriptIdle
    /\ arg \in BulkInputs
    /\ ret = <<>>
    /\ calls = <<>>

\* ulawToL16 is called with a Uint8Array of u-law bytes
CallUlawToL16 ==
    /\ calls = <<>>
    /\ arg.type = "Uint8Array"
    /\ ret' = ulawToL16(arg.data)
    /\ calls' = <<"ulawToL16">>
    /\ UNCHANGED arg
    /\ UNCHANGED <<wavVars, streamVars, transcriptVars>>

\* ulawFromL16 is called with samples or with a buffer of raw bytes
CallUlawFromL16 ==
    /\ calls = <<>>
    /\ ret' = ulawFromL16(arg)
    /\ calls' = <<"ulawFromL16">>
    /\ UNCHANGED arg
    /\ UNCHANGED <<wavVars, streamVars, transcriptVars>>

NextBulk ==
    \/ CallUlawToL16
    \/ CallUlawFromL16

SpecBulk == InitBulk /\ [][NextBulk]_vars

\* C19: the bulk functions never fail and work element by element: ulawToL16
\* gives an array of the same length with element i = decode(buf[i]);
\* ulawFromL16 on a sample array gives an array of the same length with
\* element i = encode(src[i]); ulawFromL16 on a raw byte buffer of any length,
\* even or odd, returns floor(byteLength / 2) codes with element
\* i = encode(little-endian int16 at byte offset 2i).
C19_BulkElementWise ==
    /\ calls = <<"ulawToL16">>
       => /\ ret.kind = "return"
          /\ Len(ret.value) = Len(arg.data)
          /\ \A i \in 1..Len(arg.data) : ret.value[i] = ulawToL16Sample(arg.data[i])
    /\ calls = <<"ulawFromL16">> /\ arg.type \in {"Int16Array", "Array"}
       => /\ ret.kind = "return"
          /\ Len(ret.value) = Len(arg.data)
          /\ \A i \in 1..Len(arg.data) : ret.value[i] = ulawFromL16Sample(arg.data[i])
    /\ calls = <<"ulawFromL16">> /\ arg.type \in {"Uint8Array", "DataView"}
       => /\ ret.kind = "return"
          /\ Len(ret.value) = Len(arg.data) \div 2
          /\ \A i \in 1..(Len(arg.data) \div 2) :
               ret.value[i] = ulawFromL16Sample(GetInt16(arg.data, 2 * (i - 1)))

-----------------------------------------------------------------------------
(* msToHMS                                                                   *)

\* Bounds of the model
\* the milliseconds tried from each of the MsBases on
MsSpan == 12

\* times around the second, the minute, the hour and the day, and beyond
MsBases == {0, 995, 59995, 61000, 3599995, 86399995, 90061000, 172799995}
MsInputs == UNION { b..(b + MsSpan) : b \in MsBases }

\* a string is the sequence of its characters
DigitChars == <<"0", "1", "2", "3", "4", "5", "6", "7", "8", "9">>

\* n.toString() of a non-negative integer
RECURSIVE ToString10(_)
ToString10(n) ==
    IF n < 10 THEN <<DigitChars[n + 1]>>
    ELSE ToString10(n \div 10) \o <<DigitChars[(n % 10) + 1]>>

\* pad: "0" is put in front while the string is shorter than size
RECURSIVE pad(_, _)
pad(numberString, size) ==
    IF Len(numberString) < size THEN pad(<<"0">> \o numberString, size)
    ELSE numberString

\* [...].join(sep)
RECURSIVE Join(_, _)
Join(parts, sep) ==
    IF Len(parts) = 1 THEN Head(parts)
    ELSE Head(parts) \o <<sep>> \o Join(Tail(parts), sep)

\* msToHMS that counts the hours on past 23
msToHMSHoursUnwrapped(ms) ==
    LET seconds == (ms \div 1000) % 60
        minutes == ((ms \div 1000) \div 60) % 60
        hours   == (ms \div 1000) \div 3600
        mss     == ms - ((hours * 60 * 60 * 1000) + (minutes * 60 * 1000)
                         + (seconds * 1000))
        formatted == Join(<<pad(ToString10(hours), 2), pad(ToString10(minutes), 2),
                            pad(ToString10(seconds), 2)>>, ":")
    IN  Join(<<formatted, pad(ToString10(mss), 3)>>, ".")

\* msToHMS of a non-negative whole number of milliseconds; mss is what is left
\* of ms after the hours modulo 24, the minutes and the seconds
msToHMS(ms) ==
    LET seconds == (ms \div 1000) % 60
        minutes == ((ms \div 1000) \div 60) % 60
        hours   == ((ms \div 1000) \div 3600) % 24
        mss     == ms - ((hours * 60 * 60 * 1000) + (minutes * 60 * 1000)
                         + (seconds * 1000))
        formatted == Join(<<pad(ToString10(hours), 2), pad(ToString10(minutes), 2),
                            pad(ToString10(seconds), 2)>>, ":")
    IN  Join(<<formatted, pad(ToString10(mss), 3)>>, ".")

InitTime ==
    /\ conf = NoPipeline
    /\ StreamIdle
    /\ WavIdle
    /\ TranscriptIdle
    /\ arg \in MsInputs
    /\ ret = <<>>
    /\ calls = <<>>

\* msToHMS is called
CallMsToHMS ==
    /\ calls = <<>>
    /\ ret' = msToHMS(arg)
    /\ calls' = <<"msToHMS">>
    /\ UNCHANGED arg
    /\ UNCHANGED <<wavVars, streamVars, transcriptVars>>

NextTime == CallMsToHMS

SpecTime == InitTime /\ [][NextTime]_vars

\* the number two digit characters write
DigitValue(c) == (CHOOSE d \in 1..10 : DigitChars[d] = c) - 1
IsDigit(c) == \E d \in 1..10 : DigitChars[d] = c
TwoDigits(str, i) == 10 * DigitValue(str[i]) + DigitValue(str[i + 1])

\* C20: for every non-negative integer ms, also from 86,400,000 on, msToHMS(ms)
\* has the form HH:MM:SS.mmm: twelve characters, two digits of hours in 00..23,
\* two of minutes in 00..59, two of seconds in 00..59 and three digits of
\* milliseconds.
C20_FixedFormat ==
    calls = <<"msToHMS">> /\ arg >= 0
    => /\ Len(ret) = 12
       /\ ret[3] = ":" /\ ret[6] = ":" /\ ret[9] = "."
       /\ \A i \in {1, 2, 4, 5, 7, 8, 10, 11, 12} : IsDigit(ret[i])
       /\ TwoDigits(ret, 1) \in 0..23
       /\ TwoDigits(ret, 4) \in 0..59
       /\ TwoDigits(ret, 7) \in 0..59

\* C21 as stated: msToHMS computes the hours modulo 24; format(0) is
\* "00:00:00.000", format(61005) is "00:01:01.005" and format(3600000) is
\* "00:00:00.000".
C21_LiteralsHourIsZero ==
    calls = <<"msToHMS">>
    => /\ TwoDigits(ret, 1) = (arg \div 3600000) % 24
       /\ arg = 0 => ret = <<"0", "0", ":", "0", "0", ":", "0", "0", ".", "0", "0", "0">>
       /\ arg = 61005
          => ret = <<"0", "0", ":", "0", "1", ":", "0", "1", ".", "0", "0", "5">>
       /\ arg = 3600000
          => ret = <<"0", "0", ":", "0", "0", ":", "0", "0", ".", "0", "0", "0">>

\* C21 as amended: the hours field of msToHMS(ms) is two digits, the whole
\* hours of ms modulo 24; format(0) is "00:00:00.000", format(61005) is
\* "00:01:01.005", format(3600000) is "01:00:00.000", and format(86400000),
\* a whole day, has the hours 00 again.
C21_HoursModulo24 ==
    calls = <<"msToHMS">>
    => /\ ret[3] = ":" /\ IsDigit(ret[1]) /\ IsDigit(ret[2])
       /\ TwoDigits(ret, 1) = (arg \div 3600000) % 24
       /\ arg = 0 => ret = <<"0", "0", ":", "0", "0", ":", "0", "0", ".", "0", "0", "0">>
       /\ arg = 61005
          => ret = <<"0", "0", ":", "0", "1", ":", "0", "1", ".", "0", "0", "5">>
       /\ arg = 3600000
          => ret = <<"0", "1", ":", "0", "0", ":", "0", "0", ".", "0", "0", "0">>
       /\ arg = 86400000 => SubSeq(ret, 1, 9) = <<"0", "0", ":", "0", "0", ":", "0", "0", ".">>

\* one hour has been formatted, with the hours 01
C21_Witness ==
    /\ calls = <<"msToHMS">> /\ arg = 3600000
    /\ SubSeq(ret, 1, 3) = <<"0", "1", ":">>

-----------------------------------------------------------------------------
(* Claims about what readNext and close() leave alone *)

\* C22: readNext and close() change only the read cursor and the state of the
\* file handle: the format, the rate, the channels, the payload start and the
\* payload length of a reader keep the values of its construction through
\* every operation, failed reads included, and the file is left as it is.
C22_ReaderFieldsFixed ==
    [][reader.made
       => /\ reader'.made
          /\ reader'.format = reader.format
          /\ reader'.rate = reader.rate
          /\ reader'.channels = reader.channels
          /\ reader'.dataStartPos = reader.dataStartPos
          /\ reader'.dataChunkSize = reader.dataChunkSize
          /\ reader'.bytesPerSample = reader.bytesPerSample
          /\ reader'.maxFrameSamples = reader.maxFrameSamples
          /\ file' = file]_vars

\* a reader whose read failed and that was closed afterwards
C22_Witness ==
    /\ reader.made /\ log.reads >= 1 /\ log.closes >= 1
    /\ result.kind = "error" /\ handle = "closed"

\* C24: readNext advances the cursor before its read and does not put it back:
\* when the read fails, with the truncated-data error or an I/O error, the
\* cursor stays at its value before the call plus the bytes asked for (unless
\* close() has pinned it), the reader is otherwise unchanged, and the next
\* readNext reads from that cursor on, or reports end-of-stream when the
\* cursor had reached the payload length.
C24_CursorNotRolledBack ==
    /\ [][inflight.pending /\ ~inflight'.pending /\ result'.kind = "error"
          => /\ reader' = reader
             /\ log.closes = 0
                => reader'.readPos = inflight.pos + inflight.available]_vars
    /\ [][result.kind = "error" /\ ReadNextCalled /\ log.closes = 0
          => IF reader.readPos = reader.dataChunkSize
             THEN result'.kind = "null" /\ reader' = reader
             ELSE /\ inflight'.pending
                  /\ inflight'.pos = reader.readPos
                  /\ inflight'.position = reader.dataStartPos + reader.readPos
                  /\ reader'.readPos > reader.readPos]_vars

\* a read failed with an I/O error and the next readNext returned the frame
\* behind the bytes that were never delivered
C24_Witness ==
    /\ reader.made /\ log.closes = 0 /\ log.ioFaults = 1
    /\ result.kind = "frame" /\ reader.readPos > log.delivered

-----------------------------------------------------------------------------
(* Claims about decoding and encoding again *)

\* C23: for every byte b in 0..255, ulawFromL16Sample(ulawToL16Sample(b)) = b;
\* so two bytes never decode to the same sample, and a sample that went
\* through encode and decode comes back unchanged from a second round.
C23_DecodeEncodeIdentity ==
    /\ calls = <<"ulawToL16Sample", "ulawFromL16Sample">> /\ arg \in 0..255
       => ret = arg
    /\ calls = <<"ulawToL16Sample">> /\ arg \in 0..255
       => \A b \in 0..255 : b # arg => ulawToL16Sample(b) # ret
    /\ calls = <<"ulawFromL16Sample", "ulawToL16Sample">>
       => ulawToL16Sample(ulawFromL16Sample(ret)) = ret

\* the byte 0x7F was decoded and encoded again, to 0x7F
C23_Witness ==
    /\ calls = <<"ulawToL16Sample", "ulawFromL16Sample">>
    /\ arg = 127 /\ ret = 127

-----------------------------------------------------------------------------
(* The transcript file: writeTranscriptionSegment and the result stream loop *)

\* Bounds of the model
\* events the result stream gives before it ends
MaxEvents == 3

savePartial == FALSE

\* the items of an alternative, with their times in seconds
Item == [StartTime |-> 1, EndTime |-> 2]
LastItem == [StartTime |-> 61, EndTime |-> 3600]

\* Alternatives[0] of a result: its transcript and, optionally, its items
Alternatives0 ==
    { [Transcript |-> "a", Items |-> Undefined],
      [Transcript |-> "a", Items |-> <<<<Item, LastItem>>>>],
      [Transcript |-> "b", Items |-> <<<<>>>>] }

\* Results[0]: Alternatives undefined, empty or with one alternative, and
\* IsPartial undefined, true or false
Results0 ==
    { [Alternatives |-> a, IsPartial |-> p] :
        a \in {Undefined, <<<<>>>>} \cup { <<<<alt>>>> : alt \in Alternatives0 },
        p \in {Undefined, <<TRUE>>, <<FALSE>>} }

\* a second result that is final
FinalResult ==
    [Alternatives |-> <<<<[Transcript |-> "b", Items |-> Undefined]>>>>,
     IsPartial |-> <<FALSE>>]

\* the events of a result stream: an event that is no TranscriptEvent, and
\* TranscriptEvents with Results undefined, empty, of one result, and of a
\* partial result followed by a final one
ResultEvents ==
    { [TranscriptEvent |-> FALSE, Results |-> Undefined],
      [TranscriptEvent |-> TRUE, Results |-> Undefined],
      [TranscriptEvent |-> TRUE, Results |-> <<<<>>>>],
      [TranscriptEvent |-> TRUE,
       Results |-> <<<<[Alternatives |-> <<<<[Transcript |-> "a", Items |-> Undefined]>>>>,
                       IsPartial |-> <<TRUE>>], FinalResult>>>>] }
    \cup { [TranscriptEvent |-> TRUE, Results |-> <<<<r>>>>] : r \in Results0 }

\* the line CallSimulator writes, and the line Transcriber writes with the
\* times of the first and the last item
FormatLine(pipeline, alt) ==
    IF pipeline = "CallSimulator" THEN [transcript |-> alt.Transcript]
    ELSE LET items == alt.Items
         IN  IF items # Undefined /\ Len(items[1]) > 0
             THEN [starttime |-> msToHMS(items[1][1].StartTime * 1000),
                   endtime |-> msToHMS(items[1][Len(items[1])].EndTime * 1000),
                   transcript |-> alt.Transcript]
             ELSE [starttime |-> <<"-", "1">>, endtime |-> <<"-", "1">>,
                   transcript |-> alt.Transcript]

\* writeTranscriptionSegment that takes an undefined IsPartial for final
writeTranscriptionSegmentUndefinedFinal(pipeline, message) ==
    IF message.Results # Undefined /\ Len(message.Results[1]) > 0
    THEN LET res0 == message.Results[1][1]
         IN  IF res0.Alternatives # Undefined /\ Len(res0.Alternatives[1]) > 0
             THEN IF res0.IsPartial = <<TRUE>> /\ ~savePartial
                  THEN <<>>
                  ELSE <<FormatLine(pipeline, res0.Alternatives[1][1])>>
             ELSE <<>>
    ELSE <<>>

\* writeTranscriptionSegment: the lines it writes for one TranscriptEvent
writeTranscriptionSegment(pipeline, message) ==
    IF message.Results # Undefined /\ Len(message.Results[1]) > 0
    THEN LET res0 == message.Results[1][1]
         IN  IF res0.Alternatives # Undefined /\ Len(res0.Alternatives[1]) > 0
             THEN IF \/ res0.IsPartial = Undefined
                     \/ (res0.IsPartial = <<TRUE>> /\ ~savePartial)
                  THEN <<>>
                  ELSE <<FormatLine(pipeline, res0.Alternatives[1][1])>>
             ELSE <<>>
    ELSE <<>>

\* client.send has resolved: the response has a result stream, or has none
InitTranscript ==
    /\ conf = NoPipeline
    /\ StreamIdle
    /\ WavIdle
    /\ UtilIdle
    /\ session \in { [pipeline |-> p, stream |-> st] :
                       p \in {"CallSimulator", "Transcriber"},
                       st \in {"undefined", "open"} }
    /\ events = <<>>
    /\ lines = <<>>
    /\ fileWriter = "open"

\* one turn of the for await loop: the result stream gives an event, and a
\* TranscriptEvent is handed to writeTranscriptionSegment
ResultStreamEvent(event) ==
    /\ session.stream = "open"
    /\ Len(events) < MaxEvents
    /\ events' = Append(events, event)
    /\ lines' = IF event.TranscriptEvent /\ fileWriter = "open"
                THEN lines \o writeTranscriptionSegment(session.pipeline, event)
                ELSE lines
    /\ UNCHANGED <<session, fileWriter>>
    /\ UNCHANGED <<wavVars, streamVars, utilVars>>

\* the result stream is exhausted: the loop ends and the writer is closed
ResultStreamEnd ==
    /\ session.stream = "open"
    /\ session' = [session EXCEPT !.stream = "done"]
    /\ fileWriter' = "closed"
    /\ UNCHANGED <<events, lines>>
    /\ UNCHANGED <<wavVars, streamVars, utilVars>>

\* the result stream throws: the loop is left by the exception
ResultStreamThrows ==
    /\ session.stream = "open"
    /\ session' = [session EXCEPT !.stream = "failed"]
    /\ UNCHANGED <<events, lines, fileWriter>>
    /\ UNCHANGED <<wavVars, streamVars, utilVars>>

NextTranscript ==
    \/ \E event \in ResultEvents : ResultStreamEvent(event)
    \/ ResultStreamEnd
    \/ ResultStreamThrows

SpecTranscript == InitTranscript /\ [][NextTranscript]_vars

\* an event with at least one result whose first result has at least one
\* alternative and IsPartial = false
HasFinalFirstResult(e) ==
    /\ e.TranscriptEvent
    /\ e.Results # Undefined /\ Len(e.Results[1]) >= 1
    /\ e.Results[1][1].Alternatives # Undefined
    /\ Len(e.Results[1][1].Alternatives[1]) >= 1
    /\ e.Results[1][1].IsPartial = <<FALSE>>

\* the transcripts of the events that call for a line, in arrival order
RECURSIVE TranscriptsDue(_)
TranscriptsDue(es) ==
    IF es = <<>> THEN <<>>
    ELSE (IF HasFinalFirstResult(Head(es))
          THEN <<Head(es).Results[1][1].Alternatives[1][1].Transcript>>
          ELSE <<>>) \o TranscriptsDue(Tail(es))

\* C25: one line is written for an event exactly when the event has a result,
\* its first result has an alternative and IsPartial = false; a partial result
\* and one with IsPartial undefined write nothing; the lines are in the order
\* the events arrived; the writer is closed only when the result stream is
\* exhausted and every event has been processed; nothing is written after the
\* close.
C25_FinalResultsWrittenInOrder ==
    /\ [](/\ Len(lines) = Len(TranscriptsDue(events))
          /\ \A i \in 1..Len(lines) : lines[i].transcript = TranscriptsDue(events)[i])
    /\ [](fileWriter = "closed" => session.stream = "done")
    /\ [][fileWriter = "closed"
          => lines' = lines /\ events' = events /\ fileWriter' = "closed"]_vars

\* a partial result, a result with IsPartial undefined and a final result
\* have arrived, the stream has ended: one line, the writer closed
C25_Witness ==
    /\ session.stream = "done" /\ fileWriter = "closed"
    /\ Len(events) = 3 /\ Len(lines) = 1
    /\ events[1].Results # Undefined /\ Len(events[1].Results[1]) = 1
    /\ events[1].Results[1][1].IsPartial = <<TRUE>>
    /\ events[2].Results # Undefined /\ Len(events[2].Results[1]) = 1
    /\ events[2].Results[1][1].IsPartial = Undefined
    /\ events[2].Results[1][1].Alternatives # Undefined
    /\ Len(events[2].Results[1][1].Alternatives[1]) = 1
    /\ HasFinalFirstResult(events[3])

====
